---- MODULE Spec2Model ----
(***************************************************************************)
(* Multi-agent industrial monitoring pipeline.                             *)
(*                                                                         *)
(* The model follows SystemOrchestrator.run_pipeline (src/orchestrator.py) *)
(* stage by stage, together with the agents it calls.  A dataset is kept   *)
(* as the counts the agents compute from it (rows, rows that survive       *)
(* cleaning, under-utilised machines, average health).  A narrative text   *)
(* is kept as its length class and the set of validator terms it contains. *)
(* Python lists are objects: validation_history is a reference into a heap *)
(* of lists, so that aliasing between runs on one orchestrator is visible. *)
(***************************************************************************)
EXTENDS Integers, Sequences, FiniteSets, TLC

(***************************************************************************)
(* Bounds of the model                                                     *)
(***************************************************************************)
MaxRows == 10

\* Longest per-category anomaly list of the multi-factor check.
MaxListLen == 3

Runs == {1, 2}

(***************************************************************************)
(* Program constants                                                       *)
(***************************************************************************)
max_retries == 3

min_rows == 10

min_processed_rows == 5

min_length == 100

\* Python None / an absent key, and a present value.
None == <<>>

Some(x) == <<x>>

Stages ==
  <<"data_collection", "raw_validation", "preprocessing", "post_validation",
    "kpi_calculation", "analysis", "anomaly_detection", "reasoning", "debate",
    "planning", "llm_analysis", "decision", "report_generation",
    "final_validation">>

\* FinalValidationAgent.required_sections
required_sections == {"KPI", "ANOMALIES", "DÉCISIONS", "TRAÇABILITÉ"}

\* Section identifiers an upper-cased report can contain.
HeaderSpellings ==
  {"KPI", "ANOMALIES", "DECISIONS", "DÉCISIONS", "TRACEABILITY", "TRAÇABILITÉ"}

\* Terms the validators look for in a lower-cased narrative (accents dropped
\* in the spelling of the model: immediat = immédiat, sante = santé, ...).
urgency_terms == {"urgent", "critique", "immediat", "priorit"}

health_terms == {"sante", "health", "etat", "degrade"}

risk_keywords == {"risque majeur", "danger", "urgence", "critique"}

\* QualityControlAgent.criteria and the actionable terms (warnings only).
content_terms == {"probleme", "action", "recommand"}

forbidden_terms == {"erreur", "impossible", "echec"}

actionable_terms == {"recommand", "action", "priorit", "urgent", "immediat"}

Vocabulary ==
  urgency_terms \cup health_terms \cup risk_keywords \cup content_terms
  \cup forbidden_terms

\* Terms an answer of the external text-generation service is drawn from.
LLMVocabulary == {"critique", "sante"}

HealthLevels == {40, 55, 80}

(***************************************************************************)
(* Inputs of run_pipeline                                                  *)
(***************************************************************************)
\* A data source: a path to a file that may not exist, or a table.  removed
\* is the number of rows clean_data drops (Operational_Hours <= 0 or NaN in
\* a critical column); low_util the number of kept rows with utilisation
\* below 0.4; health the average Health_Score of the kept rows; error_col
\* whether column Error_Codes_Last_30_Days is present; high_null whether
\* more than 30% of the cells are null.
RemovedChoices(rows) ==
  {k \in {0, rows - min_processed_rows, rows - min_processed_rows + 1, rows} :
     k >= 0 /\ k <= rows}

LowUtilChoices(kept) == {0, kept \div 4, kept}

DataSources ==
  { d \in [found : BOOLEAN, rows : 0..MaxRows, removed : 0..MaxRows,
           missing_cols : BOOLEAN, high_null : BOOLEAN,
           low_util : 0..MaxRows,
           health : HealthLevels, error_col : BOOLEAN] :
      /\ d.removed \in RemovedChoices(d.rows)
      /\ d.low_util \in LowUtilChoices(d.rows - d.removed)
      \* a missing file or a rejected table has no further attributes
      /\ (~d.found \/ d.missing_cols \/ d.high_null \/ d.rows < min_rows) =>
            /\ d.removed = 0 /\ d.low_util = 0 /\ d.health = 80
            /\ ~d.error_col
      \* an empty table has no health, and only there the column matters
      /\ d.removed = d.rows => d.health = 80
      /\ d.error_col => d.removed = d.rows
      /\ ~d.found => d.rows = 0 /\ ~d.missing_cols /\ ~d.high_null }

(***************************************************************************)
(* Agents: pure functions of their arguments                               *)
(***************************************************************************)
\* float NaN; every score of the program lies in 0..100.
NaN == -1

\* Python comparison x < c where x may be NaN (every comparison is False).
Below(x, c) == x # NaN /\ x < c

\* DataCollectorAgent.load_data / load_from_dataframe: a missing file gives
\* a package without the row_count key.
load_data(d) ==
  IF d.found
  THEN [data |-> <<d>>, status |-> "loaded", row_count |-> d.rows,
        error |-> "",
        keys |-> {"data", "status", "row_count", "columns", "profile"}]
  ELSE [data |-> <<>>, status |-> "error", row_count |-> 0,
        error |-> "File not found",
        keys |-> {"data", "status", "error"}]

\* ValidationAgent.validate_raw_data
validate_raw_data(data_package) ==
  LET df == data_package.data[1]
      issues ==
        (IF df.rows < min_rows THEN <<"insufficient_data">> ELSE <<>>)
        \o (IF df.missing_cols THEN <<"missing_columns">> ELSE <<>>)
        \o (IF df.high_null THEN <<"high_null_percentage">> ELSE <<>>)
  IN  [valid |-> Len(issues) = 0, issues |-> issues, data |-> df]

\* PreprocessingAgent.clean_data: rows with Operational_Hours <= 0 (and rows
\* with NaN in a critical column) are dropped.
clean_data(validation_result) ==
  LET df == validation_result.data
  IN  [data |-> [rows |-> df.rows - df.removed, low_util |-> df.low_util,
                 health |-> df.health, error_col |-> df.error_col]]

\* ValidationAgent.validate_processed_data
validate_processed_data(df) ==
  LET issues ==
        IF df.rows < min_processed_rows THEN <<"too_much_data_lost">> ELSE <<>>
  IN  [valid |-> Len(issues) = 0, issues |-> issues, data |-> df]

\* AnalysisAgent.analyze: the mean of an empty column is NaN.
analyze(df) ==
  [total_machines |-> df.rows,
   critical_machine_count |-> df.low_util,
   avg_health_score |-> IF df.rows = 0 THEN NaN ELSE df.health]

\* AnomalyDetectorAgent.detect_anomalies raises ValueError at int(quantile)
\* when the error-code column is present and the table is empty.
detect_anomalies_raises(df) == df.error_col /\ df.rows = 0

\* The anomaly maps detect_anomalies can return for a table of `total' rows
\* (list lengths per category; zero_utilization is empty after cleaning).
AnomalyMaps(total) ==
  { [high_temperature |-> 0, high_vibration |-> 0, zero_utilization |-> 0,
     maintenance_overdue |-> 0] }
  \cup
  (IF total > 0
   THEN { [high_temperature |-> 1, high_vibration |-> 1,
           zero_utilization |-> 0, maintenance_overdue |-> total] }
   ELSE {})

(***************************************************************************)
(* LLMInsightAgent                                                         *)
(***************************************************************************)
Texts == [long : BOOLEAN, terms : SUBSET Vocabulary]

\* What the external service can answer: a text, or a failure.
ServiceFailure == None

LLMTexts == [long : BOOLEAN, terms : SUBSET LLMVocabulary]

\* LLMInsightAgent._generate_fallback_insights divides by total_machines.
fallback_raises(summary) == summary.total_machines = 0

\* Variant: the template has no line about the state or the health score.
_generate_fallback_insights_no_health(summary, anomalies) ==
  [long |-> TRUE,
   terms |-> {"urgent", "critique", "immediat", "priorit",
              "probleme", "action", "recommand"}]

\* The template is longer than min_length and contains URGENTE, critique,
\* immediatement, Priorite, sante, Etat, PROBLEMES and ACTIONS RECOMMANDEES.
_generate_fallback_insights(summary, anomalies) ==
  [long |-> TRUE,
   terms |-> {"urgent", "critique", "immediat", "priorit", "sante", "etat",
              "probleme", "action", "recommand"}]

\* LLMInsightAgent.interpret: raised is TRUE when the exception leaves the
\* method (the except branch calls the fallback again, outside any try).
interpret(client, service, summary, anomalies) ==
  IF client /\ service # ServiceFailure
  THEN [raised |-> FALSE, text |-> service[1], status |-> "success"]
  ELSE IF fallback_raises(summary)
       THEN [raised |-> TRUE, text |-> [long |-> FALSE, terms |-> {}],
             status |-> "fallback"]
       ELSE [raised |-> FALSE,
             text |-> _generate_fallback_insights(summary, anomalies),
             status |-> "fallback"]

(***************************************************************************)
(* QualityControlAgent                                                     *)
(***************************************************************************)
\* QualityControlAgent._check_consistency
_check_consistency(text, summary) ==
  (IF /\ 5 * summary.critical_machine_count > summary.total_machines
      /\ text.terms \cap urgency_terms = {}
   THEN <<"understates_criticality">> ELSE <<>>)
  \o
  (IF /\ Below(summary.avg_health_score, 60)
      /\ text.terms \cap health_terms = {}
   THEN <<"ignores_low_health">> ELSE <<>>)

\* Variant: the status of the narrative is not consulted.
RetryNeeded_any_status(issues, status) == Len(issues) > 0

\* retry_needed = len(issues) > 0 and status != "fallback"
RetryNeeded(issues, status) == Len(issues) > 0 /\ status # "fallback"

\* The warnings of validate_llm_output (the one for a text above the
\* maximum length is left out: texts have two length classes).
QualityWarnings(text, status) ==
  (IF status = "fallback" THEN <<"fallback_mode">> ELSE <<>>)
  \o (IF ~(content_terms \subseteq text.terms)
      THEN <<"missing_content">> ELSE <<>>)
  \o (IF text.terms \cap forbidden_terms # {}
      THEN <<"concerning_terms">> ELSE <<>>)
  \o (IF text.terms \cap actionable_terms = {}
      THEN <<"not_actionable">> ELSE <<>>)

\* QualityControlAgent.validate_llm_output
validate_llm_output(llm_result, summary) ==
  LET text == llm_result.text
      issues == (IF ~text.long THEN <<"too_short">> ELSE <<>>)
                \o _check_consistency(text, summary)
  IN  [valid |-> Len(issues) = 0,
       issues |-> issues,
       warnings |-> QualityWarnings(text, llm_result.status),
       retry_needed |-> RetryNeeded(issues, llm_result.status)]

(***************************************************************************)
(* DecisionAgent                                                           *)
(***************************************************************************)
\* DecisionAgent.decide divides by total_machines before any rule.
decide_raises(summary) == summary.total_machines = 0

\* A decision; rule (the number of the rule that appended it) stands for its
\* action text.
Decision(p, c, rule) == [priority |-> p, category |-> c, rule |-> rule]

\* Variant: the list is returned in the order the rules appended to it.
SortByPriority_unsorted(ds) == ds

\* list.sort(key=priority_order): a stable sort on P1 < P2 < P3.
SortByPriority(ds) ==
  SelectSeq(ds, LAMBDA d : d.priority = "P1")
  \o SelectSeq(ds, LAMBDA d : d.priority = "P2")
  \o SelectSeq(ds, LAMBDA d : d.priority = "P3")

\* Variant: the health score is read under a key the summary lacks, so the
\* default of 100 is compared.
LowHealth_default(summary) == FALSE

\* avg_health < self.thresholds['low_health_threshold']
LowHealth(summary) == Below(summary.avg_health_score, 50)

\* Variant: every record asks for action.
ActionNeeded_always(priority) == TRUE

\* "action_needed": priority in ["URGENT", "HIGH"]
ActionNeeded(priority) == priority \in {"URGENT", "HIGH"}

\* DecisionAgent.decide, rule by rule; pN is the overall priority after
\* rule N and steps lists these values in order.  optional says, for each
\* of reasoning_result, debate_result and plan_result, whether it was
\* handed over and meets the condition of its rule (high confidence, a
\* consensus, phases); rules 9-11 stand before the health rule in the code.
decide(summary, anomalies, llm_result, qc_result, optional) ==
  LET total == summary.total_machines
      critical == summary.critical_machine_count
      r1 == 10 * critical > 3 * total
      p1 == IF r1 THEN "URGENT" ELSE "NORMAL"
      d1 == IF r1 THEN <<Decision("P1", "maintenance", 1)>> ELSE <<>>
      hot == anomalies.high_temperature
      p2 == IF hot > 5 THEN "URGENT" ELSE p1
      d2 == IF hot > 5 THEN <<Decision("P1", "safety", 2)>>
            ELSE IF hot > 0 THEN <<Decision("P2", "monitoring", 2)>> ELSE <<>>
      d3 == IF anomalies.high_vibration > 3
            THEN <<Decision("P2", "diagnostic", 3)>> ELSE <<>>
      d4 == IF anomalies.zero_utilization > 0
            THEN <<Decision("P2", "operations", 4)>> ELSE <<>>
      overdue == anomalies.maintenance_overdue
      r5 == 5 * overdue > total
      p5 == IF r5 /\ p2 # "URGENT" THEN "HIGH" ELSE p2
      d5 == IF r5 THEN <<Decision("P1", "maintenance", 5)>>
            ELSE IF overdue > 0 THEN <<Decision("P3", "maintenance", 5)>>
            ELSE <<>>
      d6 == IF ~qc_result.valid THEN <<Decision("P3", "quality", 6)>> ELSE <<>>
      r7 == llm_result.text.terms \cap risk_keywords # {}
      p7 == IF r7 /\ p5 = "NORMAL" THEN "HIGH" ELSE p5
      d7 == IF r7 THEN <<Decision("P2", "audit", 7)>> ELSE <<>>
      d9 == IF optional.reasoning
            THEN <<Decision("P2", "ai_recommendation", 9)>> ELSE <<>>
      d10 == IF optional.debate
             THEN <<Decision("P2", "strategy", 10)>> ELSE <<>>
      d11 == IF optional.plan
             THEN <<Decision("P2", "planning", 11)>> ELSE <<>>
      r8 == LowHealth(summary)
      p8 == IF r8 THEN "URGENT" ELSE p7
      d8 == IF r8 THEN <<Decision("P1", "health", 8)>> ELSE <<>>
  IN  [priority |-> p8,
       decisions |-> SortByPriority(d1 \o d2 \o d3 \o d4 \o d5 \o d6 \o d7
                                    \o d9 \o d10 \o d11 \o d8),
       action_needed |-> ActionNeeded(p8),
       steps |-> <<"NORMAL", p1, p2, p5, p7, p8>>]

(***************************************************************************)
(* ReportAgent and FinalValidationAgent                                    *)
(***************************************************************************)
\* ReportAgent._generate_executive_summary divides by total_machines.
generate_report_raises(summary) == summary.total_machines = 0

\* Variant: the section lists only the validations that passed.
_generate_traceability_section_valid_only(history) ==
  LET passed == SelectSeq(history, LAMBDA e : e.valid)
  IN  [i \in 1..Len(passed) |->
         [kind |-> "entry", agent |-> passed[i].agent, valid |-> passed[i].valid,
          message |-> passed[i].message, attempt |-> passed[i].attempt]]

\* ReportAgent._generate_traceability_section: after the header and the
\* count, one line per entry of the history it is handed (icon of the
\* verdict, agent, message); the section has no other kind of line.
_generate_traceability_section(history) ==
  [i \in 1..Len(history) |->
     [kind |-> "entry", agent |-> history[i].agent, valid |-> history[i].valid,
      message |-> history[i].message, attempt |-> history[i].attempt]]

\* Variant: the section headers are written without accents, in English.
generate_report_unaccented(summary, anomalies, llm_result, decisions, history) ==
  [long |-> TRUE,
   sections |-> {"KPI", "ANOMALIES", "DECISIONS", "TRACEABILITY"},
   priority |-> decisions.priority,
   ai_status |-> llm_result.status,
   ai_text |-> llm_result.text,
   traceability |-> _generate_traceability_section(history)]

\* ReportAgent.generate_report: a string made of the fixed sections; the
\* headers carry KPI, ANOMALIES, DÉCISIONS and TRAÇABILITÉ, and the fixed
\* parts alone exceed the minimum length of the final validation.
generate_report(summary, anomalies, llm_result, decisions, history) ==
  [long |-> TRUE,
   sections |-> {"KPI", "ANOMALIES", "DÉCISIONS", "TRAÇABILITÉ"},
   priority |-> decisions.priority,
   ai_status |-> llm_result.status,
   ai_text |-> llm_result.text,
   traceability |-> _generate_traceability_section(history)]

\* An issue of validate_report; the missing-sections issue names them.
ReportIssue(kind, sections) == [kind |-> kind, sections |-> sections]

\* FinalValidationAgent.validate_report: report.sections are the
\* identifiers found in report.upper(); warnings do not enter the verdict.
validate_report(report, decisions) ==
  LET missing == required_sections \ report.sections
      issues ==
        (IF ~report.long THEN <<ReportIssue("too_short", {})>> ELSE <<>>)
        \o (IF missing # {}
            THEN <<ReportIssue("missing_sections", missing)>> ELSE <<>>)
        \o (IF decisions.action_needed /\ Len(decisions.decisions) = 0
            THEN <<ReportIssue("action_without_decisions", {})>> ELSE <<>>)
  IN  [valid |-> Len(issues) = 0, issues |-> issues]

(***************************************************************************)
(* SystemOrchestrator: state                                               *)
(***************************************************************************)
\* Lists are objects.  List 0 is the one __init__ creates, list r the one
\* run r creates when it starts.
ListIds == {0} \cup Runs

VARIABLES
  heap,                \* ListIds -> the content of that list object
  validation_history,  \* self.validation_history: a reference to a list
  pipeline_status,     \* self.pipeline_status
  client,              \* self.agents["llm"].client is set (an API key was given)
  args,                \* Runs -> the arguments of the call, None if never made
  pc,                  \* Runs -> the stage run_pipeline executes next
  results,             \* Runs -> the results dictionary of the call
  loc,                 \* Runs -> the local variables of the call
  obs                  \* Runs -> history variables (not program state)

vars == <<heap, validation_history, pipeline_status, client, args, pc,
          results, loc, obs>>

Inputs ==
  [data_source : DataSources, enable_reasoning : BOOLEAN,
   enable_debate : BOOLEAN, enable_planning : BOOLEAN]

\* The calls of the two-run scenario: accepted tables, optional stages off.
SharedInputs ==
  { a \in Inputs :
      /\ ~a.enable_reasoning /\ ~a.enable_debate /\ ~a.enable_planning
      /\ a.data_source.found /\ a.data_source.rows = MaxRows
      /\ ~a.data_source.missing_cols /\ ~a.data_source.high_null
      /\ a.data_source.removed = 0 /\ ~a.data_source.error_col
      /\ a.data_source.low_util = 0 /\ a.data_source.health = 55 }

NoResults ==
  [status |-> "none", stages_completed |-> <<>>, errors |-> <<>>,
   report |-> None, validation_history |-> None, reasoning |-> FALSE,
   debate |-> FALSE, action_plan |-> FALSE]

NoLocals ==
  [data_package |-> None, df |-> None, summary |-> None, anomalies |-> None,
   retry_count |-> 0, llm_result |-> None, qc_result |-> None,
   decisions |-> None, report |-> None, final_retry |-> 0,
   final_validation |-> None]

NoObs ==
  [interpret_calls |-> 0, validate_report_calls |-> 0, service_answers |-> 0,
   generate_report_calls |-> 0, validations |-> <<>>, raised_in |-> None, statuses |-> {}]

InitCommon ==
  /\ heap = [l \in ListIds |-> <<>>]
  /\ validation_history = 0
  /\ pipeline_status = "idle"
  /\ pc = [r \in Runs |-> "idle"]
  /\ results = [r \in Runs |-> NoResults]
  /\ loc = [r \in Runs |-> NoLocals]
  /\ obs = [r \in Runs |-> NoObs]

\* One call of run_pipeline on a fresh orchestrator.
Init ==
  /\ InitCommon
  /\ client \in BOOLEAN
  /\ \E a \in Inputs : args = [r \in Runs |-> IF r = 1 THEN Some(a) ELSE None]

\* Two calls of run_pipeline on the same orchestrator, built without an
\* API key.
InitShared ==
  /\ InitCommon
  /\ client = FALSE
  /\ \E a \in SharedInputs, b \in SharedInputs :
        args = [r \in Runs |-> IF r = 1 THEN Some(a) ELSE Some(b)]

(***************************************************************************)
(* SystemOrchestrator: helpers of run_pipeline                             *)
(***************************************************************************)
\* Variant: the newest entry is put in front (insert(0, ...)).
_record_validation_newest_first(history, agent, valid, message, attempt, r) ==
  <<[agent |-> agent, valid |-> valid, message |-> message,
     attempt |-> attempt, by |-> r]>> \o history

\* SystemOrchestrator._record_validation appends one entry to the list.
\* attempt is the number the message carries (0: none).  Field by (the
\* recording run) stands for the identity of the entry; the details
\* dictionary and the timestamp are left out.
_record_validation(history, agent, valid, message, attempt, r) ==
  Append(history, [agent |-> agent, valid |-> valid, message |-> message,
                   attempt |-> attempt, by |-> r])

\* Variant: the message carries the 0-based counter.
AttemptNumber_zero_based(retry_count) == retry_count

\* f"... (attempt {retry_count + 1})"
AttemptNumber(retry_count) == retry_count + 1

\* Variant: the raw-data gate only warns, like the processed-data gate.
RawGateAborts_warn_only(validation1) == FALSE

\* if not validation1["valid"]: the raw-data gate ends the run.
RawGateAborts(validation1) == ~validation1.valid

\* Variant: the budget test is off by one.
LoopContinues_off_by_one(count) == count <= max_retries

\* while retry_count < self.max_retries / while final_retry < self.max_retries
LoopContinues(count) == count < max_retries

\* Variant: the "not" in front of retry_needed is forgotten.
LeavesNarrativeLoop_no_not(qc_result) ==
  qc_result.valid \/ qc_result.retry_needed

\* if qc_result["valid"] or not qc_result.get("retry_needed", False): break
LeavesNarrativeLoop(qc_result) == qc_result.valid \/ ~qc_result.retry_needed

\* Variant: the final loop does not stop on an accepted report.
LeavesFinalLoop_never(final_validation) == FALSE

\* if final_validation["valid"]: break
LeavesFinalLoop(final_validation) == final_validation.valid

\* The errors entry of the raw-validation gate.
ValidationError(issues) ==
  [stage |-> "validation", issues |-> issues, message |-> ""]

\* The errors entry of the except clause of run_pipeline; origin is the stage
\* that was executing.
PipelineError(origin, message) ==
  [stage |-> "pipeline", issues |-> <<>>, message |-> message]

\* except Exception as e: (the part common to every stage)
Handler(r, res, o, origin, message) ==
  /\ results' = [results EXCEPT
        ![r] = [res EXCEPT !.status = "error",
                           !.errors = Append(@, PipelineError(origin, message))]]
  /\ pipeline_status' = "error"
  /\ pc' = [pc EXCEPT ![r] = "done"]
  /\ obs' = [obs EXCEPT ![r] = [o EXCEPT !.raised_in = Some(origin)]]

Completed(res, stage) ==
  [res EXCEPT !.stages_completed = Append(@, stage)]

Goto(r, stage) == pc' = [pc EXCEPT ![r] = stage]

\* History variable: the validation calls made, with their verdicts.
NoteValidation(o, call, valid) ==
  [o EXCEPT !.validations = Append(@, [call |-> call, valid |-> valid])]

(***************************************************************************)
(* SystemOrchestrator.run_pipeline, one action per stage                   *)
(***************************************************************************)
\* Entry of run_pipeline: status, a new history list, the results dictionary.
StartRun(r) ==
  /\ pc[r] = "idle"
  /\ args[r] # None
  /\ pipeline_status' = "running"
  /\ validation_history' = r
  /\ heap' = [heap EXCEPT ![r] = <<>>]
  /\ results' = [results EXCEPT ![r] = [NoResults EXCEPT !.status = "running"]]
  /\ Goto(r, "data_collection")
  /\ UNCHANGED <<client, args, loc, obs>>

\* Stage 1: load; data_package['row_count'] raises KeyError for a missing file.
DataCollection(r) ==
  /\ pc[r] = "data_collection"
  /\ LET data_package == load_data(args[r][1].data_source)
         res == Completed(results[r], "data_collection")
     IN  IF "row_count" \notin data_package.keys
         THEN /\ Handler(r, res, obs[r], "data_collection", "KeyError")
              /\ UNCHANGED <<heap, loc>>
         ELSE /\ heap' = [heap EXCEPT ![validation_history] =
                    _record_validation(@, "DataCollector", TRUE, "Loaded rows",
                                       0, r)]
              /\ loc' = [loc EXCEPT ![r].data_package = Some(data_package)]
              /\ results' = [results EXCEPT ![r] = res]
              /\ Goto(r, "raw_validation")
              /\ UNCHANGED <<pipeline_status, obs>>
  /\ UNCHANGED <<validation_history, client, args>>

\* Stage 2: the raw-data gate.
RawValidation(r) ==
  /\ pc[r] = "raw_validation"
  /\ LET validation1 == validate_raw_data(loc[r].data_package[1])
     IN  /\ heap' = [heap EXCEPT ![validation_history] =
                _record_validation(@, "Validator", validation1.valid,
                                   "Raw data validation", 0, r)]
         /\ obs' = [obs EXCEPT ![r] =
                NoteValidation(@, "validate_raw_data", validation1.valid)]
         /\ IF RawGateAborts(validation1)
            THEN /\ results' = [results EXCEPT
                       ![r].status = "failed",
                       ![r].errors = Append(@, ValidationError(validation1.issues))]
                 /\ Goto(r, "done")
                 /\ UNCHANGED loc
            ELSE /\ results' = [results EXCEPT
                       ![r] = Completed(@, "raw_validation")]
                 /\ loc' = [loc EXCEPT ![r].df = Some(validation1.data)]
                 /\ Goto(r, "preprocessing")
  /\ UNCHANGED <<validation_history, pipeline_status, client, args>>

\* Stage 3: cleaning.
Preprocessing(r) ==
  /\ pc[r] = "preprocessing"
  /\ LET cleaned_package == clean_data([data |-> loc[r].df[1]])
     IN  loc' = [loc EXCEPT ![r].df = Some(cleaned_package.data)]
  /\ results' = [results EXCEPT ![r] = Completed(@, "preprocessing")]
  /\ Goto(r, "post_validation")
  /\ UNCHANGED <<heap, validation_history, pipeline_status, client, args, obs>>

\* Stage 4: the processed-data gate only logs a warning.
PostValidation(r) ==
  /\ pc[r] = "post_validation"
  /\ LET validation2 == validate_processed_data(loc[r].df[1])
     IN  /\ heap' = [heap EXCEPT ![validation_history] =
                _record_validation(@, "Validator", validation2.valid,
                                   "Post-processing validation", 0, r)]
         /\ obs' = [obs EXCEPT ![r] =
                NoteValidation(@, "validate_processed_data",
                               validation2.valid)]
         /\ loc' = [loc EXCEPT ![r].df = Some(validation2.data)]
  /\ results' = [results EXCEPT ![r] = Completed(@, "post_validation")]
  /\ Goto(r, "kpi_calculation")
  /\ UNCHANGED <<validation_history, pipeline_status, client, args>>

\* Stage 5: KPI columns are added to the table.
KpiCalculation(r) ==
  /\ pc[r] = "kpi_calculation"
  /\ results' = [results EXCEPT ![r] = Completed(@, "kpi_calculation")]
  /\ Goto(r, "analysis")
  /\ UNCHANGED <<heap, validation_history, pipeline_status, client, args,
                 loc, obs>>

\* Stage 6
Analysis(r) ==
  /\ pc[r] = "analysis"
  /\ loc' = [loc EXCEPT ![r].summary = Some(analyze(loc[r].df[1]))]
  /\ results' = [results EXCEPT ![r] = Completed(@, "analysis")]
  /\ Goto(r, "anomaly_detection")
  /\ UNCHANGED <<heap, validation_history, pipeline_status, client, args, obs>>

\* Stage 7
AnomalyDetection(r) ==
  /\ pc[r] = "anomaly_detection"
  /\ IF detect_anomalies_raises(loc[r].df[1])
     THEN /\ Handler(r, results[r], obs[r], "anomaly_detection", "ValueError")
          /\ UNCHANGED loc
     ELSE /\ \E anomalies \in AnomalyMaps(loc[r].summary[1].total_machines) :
                loc' = [loc EXCEPT ![r].anomalies = Some(anomalies)]
          /\ results' = [results EXCEPT ![r] = Completed(@, "anomaly_detection")]
          /\ Goto(r, "reasoning")
          /\ UNCHANGED <<pipeline_status, obs>>
  /\ UNCHANGED <<heap, validation_history, client, args>>

\* Stages 8-10: optional enrichers of the context.
Reasoning(r) ==
  /\ pc[r] = "reasoning"
  /\ results' = [results EXCEPT ![r] =
        IF args[r][1].enable_reasoning
        THEN [Completed(@, "reasoning") EXCEPT !.reasoning = TRUE] ELSE @]
  /\ Goto(r, "debate")
  /\ UNCHANGED <<heap, validation_history, pipeline_status, client, args,
                 loc, obs>>

Debate(r) ==
  /\ pc[r] = "debate"
  /\ results' = [results EXCEPT ![r] =
        IF args[r][1].enable_debate
        THEN [Completed(@, "debate") EXCEPT !.debate = TRUE] ELSE @]
  /\ Goto(r, "planning")
  /\ UNCHANGED <<heap, validation_history, pipeline_status, client, args,
                 loc, obs>>

Planning(r) ==
  /\ pc[r] = "planning"
  /\ results' = [results EXCEPT ![r] =
        IF args[r][1].enable_planning
        THEN [Completed(@, "planning") EXCEPT !.action_plan = TRUE] ELSE @]
  /\ Goto(r, "llm_analysis")
  /\ UNCHANGED <<heap, validation_history, pipeline_status, client, args,
                 loc, obs>>

\* What one call of the external service can yield for this orchestrator.
ServiceOutcomes ==
  IF client THEN {ServiceFailure} \cup {Some(t) : t \in LLMTexts}
  ELSE {ServiceFailure}

\* Stage 11: one iteration of the narrative loop, and the statements after
\* the loop when the iteration leaves it.
LlmAnalysis(r) ==
  /\ pc[r] = "llm_analysis"
  /\ LoopContinues(loc[r].retry_count)
  /\ \E service \in ServiceOutcomes :
       LET summary == loc[r].summary[1]
           llm == interpret(client, service, summary, loc[r].anomalies[1])
           llm_result == [text |-> llm.text, status |-> llm.status]
           qc_result == validate_llm_output(llm_result, summary)
           attempt == AttemptNumber(loc[r].retry_count)
           o1 == [obs[r] EXCEPT
                    !.interpret_calls = @ + 1,
                    !.service_answers =
                        IF client /\ service # ServiceFailure THEN @ + 1 ELSE @]
           leave == LeavesNarrativeLoop(qc_result)
           retry_count == IF leave THEN loc[r].retry_count
                          ELSE loc[r].retry_count + 1
       IN  IF llm.raised
           THEN /\ Handler(r, results[r], o1, "llm_analysis", "ZeroDivisionError")
                /\ UNCHANGED <<heap, loc>>
           ELSE /\ heap' = [heap EXCEPT ![validation_history] =
                      _record_validation(@, "QualityControl", qc_result.valid,
                                         "LLM validation", attempt, r)]
                /\ obs' = [obs EXCEPT ![r] =
                      [NoteValidation(o1, "validate_llm_output",
                                      qc_result.valid)
                         EXCEPT !.statuses = @ \cup {llm_result.status}]]
                /\ loc' = [loc EXCEPT ![r].llm_result = Some(llm_result),
                                      ![r].qc_result = Some(qc_result),
                                      ![r].retry_count = retry_count]
                /\ IF leave \/ ~LoopContinues(retry_count)
                   THEN /\ results' = [results EXCEPT
                              ![r] = Completed(@, "llm_analysis")]
                        /\ Goto(r, "decision")
                   ELSE UNCHANGED <<results, pc>>
                /\ UNCHANGED pipeline_status
  /\ UNCHANGED <<validation_history, client, args>>

\* Stage 11 when the service never answers: interpret is inside
\* client.models.generate_content, which is called without a timeout; no
\* statement of the program ends the wait.
LlmCallBlocks(r) ==
  /\ pc[r] = "llm_analysis"
  /\ LoopContinues(loc[r].retry_count)
  /\ client
  /\ obs' = [obs EXCEPT ![r].interpret_calls = @ + 1]
  /\ Goto(r, "llm_call")
  /\ UNCHANGED <<heap, validation_history, pipeline_status, client, args,
                 results, loc>>

\* Stage 12
\* Variant: the results of the optional stages are handed to decide.
DecideOptionalArguments_passed(res) ==
  [reasoning |-> res.reasoning, debate |-> res.debate,
   plan |-> res.action_plan]

\* decide(summary, anomalies, llm_result, qc_result): reasoning_result,
\* debate_result and plan_result keep their default, None.
DecideOptionalArguments(res) ==
  [reasoning |-> FALSE, debate |-> FALSE, plan |-> FALSE]

DecisionMaking(r) ==
  /\ pc[r] = "decision"
  /\ IF decide_raises(loc[r].summary[1])
     THEN /\ Handler(r, results[r], obs[r], "decision", "ZeroDivisionError")
          /\ UNCHANGED loc
     ELSE /\ loc' = [loc EXCEPT ![r].decisions =
                Some(decide(loc[r].summary[1], loc[r].anomalies[1],
                            loc[r].llm_result[1], loc[r].qc_result[1],
                            DecideOptionalArguments(results[r])))]
          /\ results' = [results EXCEPT ![r] = Completed(@, "decision")]
          /\ Goto(r, "report_generation")
          /\ UNCHANGED <<pipeline_status, obs>>
  /\ UNCHANGED <<heap, validation_history, client, args>>

\* Stage 13: the report is built from the list self.validation_history
\* refers to at this moment.
ReportGeneration(r) ==
  /\ pc[r] = "report_generation"
  /\ IF generate_report_raises(loc[r].summary[1])
     THEN /\ Handler(r, results[r],
                     [obs[r] EXCEPT !.generate_report_calls = @ + 1],
                     "report_generation", "ZeroDivisionError")
          /\ UNCHANGED loc
     ELSE /\ LET report == generate_report(loc[r].summary[1],
                              loc[r].anomalies[1], loc[r].llm_result[1],
                              loc[r].decisions[1], heap[validation_history])
             IN  /\ loc' = [loc EXCEPT ![r].report = Some(report)]
                 /\ results' = [results EXCEPT
                       ![r] = [Completed(@, "report_generation")
                                 EXCEPT !.report = Some(report)]]
          /\ Goto(r, "final_validation")
          /\ obs' = [obs EXCEPT ![r].generate_report_calls = @ + 1]
          /\ UNCHANGED pipeline_status
  /\ UNCHANGED <<heap, validation_history, client, args>>

\* Stage 14: one iteration of the final-validation loop, and the statements
\* after the loop when the iteration leaves it.
FinalValidation(r) ==
  /\ pc[r] = "final_validation"
  /\ LoopContinues(loc[r].final_retry)
  /\ LET final_validation == validate_report(loc[r].report[1],
                                             loc[r].decisions[1])
         attempt == AttemptNumber(loc[r].final_retry)
         leave == LeavesFinalLoop(final_validation)
         final_retry == IF leave THEN loc[r].final_retry
                        ELSE loc[r].final_retry + 1
     IN  /\ heap' = [heap EXCEPT ![validation_history] =
                _record_validation(@, "FinalValidator", final_validation.valid,
                                   "Final validation", attempt, r)]
         /\ obs' = [obs EXCEPT ![r] =
                [NoteValidation(@, "validate_report", final_validation.valid)
                   EXCEPT !.validate_report_calls = @ + 1]]
         /\ loc' = [loc EXCEPT ![r].final_validation = Some(final_validation),
                               ![r].final_retry = final_retry]
         /\ IF leave \/ ~LoopContinues(final_retry)
            THEN /\ results' = [results EXCEPT
                       ![r] = Completed(@, "final_validation")]
                 /\ Goto(r, "complete")
            ELSE UNCHANGED <<results, pc>>
  /\ UNCHANGED <<validation_history, pipeline_status, client, args>>

\* The end of the try block: the result refers to the list
\* self.validation_history refers to at this moment.
Complete(r) ==
  /\ pc[r] = "complete"
  /\ results' = [results EXCEPT
        ![r].status = "success",
        ![r].validation_history = Some(validation_history)]
  /\ pipeline_status' = "completed"
  /\ Goto(r, "done")
  /\ UNCHANGED <<heap, validation_history, client, args, loc, obs>>

Next ==
  \E r \in Runs :
    \/ StartRun(r)
    \/ DataCollection(r)
    \/ RawValidation(r)
    \/ Preprocessing(r)
    \/ PostValidation(r)
    \/ KpiCalculation(r)
    \/ Analysis(r)
    \/ AnomalyDetection(r)
    \/ Reasoning(r)
    \/ Debate(r)
    \/ Planning(r)
    \/ LlmAnalysis(r)
    \/ DecisionMaking(r)
    \/ ReportGeneration(r)
    \/ FinalValidation(r)
    \/ Complete(r)

\* One call of run_pipeline.
Spec == Init /\ [][Next]_vars

\* Two calls of run_pipeline on one orchestrator, from two threads or one
\* after the other.
SpecShared == InitShared /\ [][Next]_vars

(***************************************************************************)
(* The final-validation stage on its own                                   *)
(***************************************************************************)
\* Reports validate_report can be handed: any length class, any set of
\* section identifiers.
Reports ==
  { [long |-> l, sections |-> h, priority |-> "NORMAL",
     ai_status |-> "fallback", ai_text |-> [long |-> TRUE, terms |-> {}],
     traceability |-> <<>>] : l \in BOOLEAN, h \in SUBSET HeaderSpellings }

\* Decision records validate_report can be handed.
DecisionRecords ==
  [priority : {"NORMAL", "URGENT"},
   decisions : {<<>>, <<Decision("P1", "maintenance", 1)>>},
   action_needed : BOOLEAN]

\* run_pipeline at the entry of stage 14, with the report the reporter
\* returned and the record decide returned (the entries of the earlier
\* stages are left out of the history).
InitFinalStage ==
  /\ heap = [l \in ListIds |-> <<>>]
  /\ validation_history = 1
  /\ pipeline_status = "running"
  /\ client = FALSE
  /\ \E a \in SharedInputs :
        args = [r \in Runs |-> IF r = 1 THEN Some(a) ELSE None]
  /\ pc = [r \in Runs |-> IF r = 1 THEN "final_validation" ELSE "idle"]
  /\ \E report \in Reports, decisions \in DecisionRecords :
        /\ results = [r \in Runs |->
              IF r = 1
              THEN [NoResults EXCEPT
                      !.status = "running",
                      !.stages_completed =
                         SelectSeq(Stages, LAMBDA g :
                            g \notin {"reasoning", "debate", "planning",
                                      "final_validation"}),
                      !.report = Some(report)]
              ELSE NoResults]
        /\ loc = [r \in Runs |->
              IF r = 1
              THEN [NoLocals EXCEPT !.report = Some(report),
                                    !.decisions = Some(decisions)]
              ELSE NoLocals]
  /\ obs = [r \in Runs |->
        IF r = 1 THEN [NoObs EXCEPT !.generate_report_calls = 1] ELSE NoObs]

NextFinalStage == \E r \in Runs : FinalValidation(r) \/ Complete(r)

\* Stage 14 and the return of run_pipeline, for any report and record.
SpecFinalStage == InitFinalStage /\ [][NextFinalStage]_vars

(***************************************************************************)
(* The decision stage on its own                                           *)
(***************************************************************************)
\* Summaries analyze can return: an empty table has no average health.
SummariesForDecide ==
  { [total_machines |-> 0, critical_machine_count |-> 0,
     avg_health_score |-> NaN] }
  \cup
  { [total_machines |-> MaxRows, critical_machine_count |-> c,
     avg_health_score |-> h] :
       c \in {0, MaxRows \div 5, (3 * MaxRows) \div 10 + 1},
       h \in HealthLevels }

\* Anomaly maps (list lengths) on both sides of every threshold of decide.
AnomalyMapsForDecide(total) ==
  IF total = 0
  THEN AnomalyMaps(0)
  ELSE [high_temperature : {0, 1, 6}, high_vibration : {0, 4},
        zero_utilization : {0, 1},
        maintenance_overdue : {0, 1, total \div 5 + 1}]

\* run_pipeline at the entry of stage 12, with any summary, anomaly map,
\* narrative and quality verdict decide can be handed.
InitDecisionStage ==
  /\ heap = [l \in ListIds |-> <<>>]
  /\ validation_history = 1
  /\ pipeline_status = "running"
  /\ client = FALSE
  /\ \E a \in SharedInputs :
        args = [r \in Runs |-> IF r = 1 THEN Some(a) ELSE None]
  /\ pc = [r \in Runs |-> IF r = 1 THEN "decision" ELSE "idle"]
  /\ results = [r \in Runs |->
        IF r = 1
        THEN [NoResults EXCEPT
                !.status = "running",
                !.stages_completed =
                   SelectSeq(Stages, LAMBDA g :
                      g \notin {"reasoning", "debate", "planning", "decision",
                                "report_generation", "final_validation"})]
        ELSE NoResults]
  /\ \E summary \in SummariesForDecide, risky \in BOOLEAN, valid \in BOOLEAN :
        \E anomalies \in AnomalyMapsForDecide(summary.total_machines) :
          loc = [r \in Runs |->
            IF r = 1
            THEN [NoLocals EXCEPT
                    !.summary = Some(summary),
                    !.anomalies = Some(anomalies),
                    !.llm_result =
                       Some([text |-> [long |-> TRUE,
                                       terms |-> IF risky THEN {"critique"}
                                                 ELSE {}],
                             status |-> "success"]),
                    !.qc_result =
                       Some([valid |-> valid, issues |-> <<>>,
                             retry_needed |-> FALSE])]
            ELSE NoLocals]
  /\ obs = [r \in Runs |-> NoObs]

NextDecisionStage == \E r \in Runs : DecisionMaking(r)

\* Stage 12 of run_pipeline, for any input of decide.
SpecDecisionStage == InitDecisionStage /\ [][NextDecisionStage]_vars

(***************************************************************************)
(* validate_llm_output on its own                                          *)
(***************************************************************************)
\* Narratives validate_llm_output can be handed, of either status.
QualityTexts ==
  [long : BOOLEAN, terms : SUBSET {"critique", "sante", "action", "erreur"}]

SummariesForQuality ==
  { [total_machines |-> MaxRows, critical_machine_count |-> c,
     avg_health_score |-> h] :
       c \in {0, MaxRows \div 5, MaxRows \div 5 + 1},
       h \in HealthLevels \cup {NaN} }

InitQualityControl ==
  /\ heap = [l \in ListIds |-> <<>>]
  /\ validation_history = 0
  /\ pipeline_status = "idle"
  /\ client = FALSE
  /\ args = [r \in Runs |-> None]
  /\ pc = [r \in Runs |-> IF r = 1 THEN "validate_llm_output" ELSE "idle"]
  /\ results = [r \in Runs |-> NoResults]
  /\ \E text \in QualityTexts, status \in {"success", "fallback"},
        summary \in SummariesForQuality :
        loc = [r \in Runs |->
          IF r = 1
          THEN [NoLocals EXCEPT
                  !.summary = Some(summary),
                  !.llm_result = Some([text |-> text, status |-> status])]
          ELSE NoLocals]
  /\ obs = [r \in Runs |-> NoObs]

\* qc_result = validate_llm_output(llm_result, summary)
ApplyValidateLlmOutput(r) ==
  /\ pc[r] = "validate_llm_output"
  /\ loc' = [loc EXCEPT ![r].qc_result =
        Some(validate_llm_output(loc[r].llm_result[1], loc[r].summary[1]))]
  /\ Goto(r, "validated")
  /\ UNCHANGED <<heap, validation_history, pipeline_status, client, args,
                 results, obs>>

NextQualityControl == \E r \in Runs : ApplyValidateLlmOutput(r)

SpecQualityControl == InitQualityControl /\ [][NextQualityControl]_vars

(***************************************************************************)
(* KPIAgent: the risk category on its own                                  *)
(***************************************************************************)
\* np.clip(Health_Score, 0, 100): the scores compute_kpis can produce,
\* taken at whole numbers.
HealthScores == 0..100

\* pd.cut(Health_Score, bins=[0, 30, 60, 80, 100], labels=[...]) with the
\* defaults right=True, include_lowest=False: the intervals are (0, 30],
\* (30, 60], (60, 80], (80, 100], and a score outside them gets NaN.
Risk_Category(score) ==
  IF score > 0 /\ score <= 30 THEN Some("Critical")
  ELSE IF score > 30 /\ score <= 60 THEN Some("High")
  ELSE IF score > 60 /\ score <= 80 THEN Some("Medium")
  ELSE IF score > 80 /\ score <= 100 THEN Some("Low")
  ELSE None

InitRiskCategory ==
  /\ heap = [l \in ListIds |-> <<>>]
  /\ validation_history = 0
  /\ pipeline_status = "idle"
  /\ client = FALSE
  /\ args = [r \in Runs |-> None]
  /\ pc = [r \in Runs |-> IF r = 1 THEN "compute_kpis" ELSE "idle"]
  /\ results = [r \in Runs |-> NoResults]
  /\ \E score \in HealthScores :
        loc = [r \in Runs |-> [Health_Score |-> score, Risk_Category |-> None]]
  /\ obs = [r \in Runs |-> NoObs]

\* df['Risk_Category'] = pd.cut(df['Health_Score'], ...) for one machine
ApplyRiskCategory(r) ==
  /\ pc[r] = "compute_kpis"
  /\ loc' = [loc EXCEPT ![r].Risk_Category =
        Some(Risk_Category(loc[r].Health_Score))]
  /\ Goto(r, "computed")
  /\ UNCHANGED <<heap, validation_history, pipeline_status, client, args,
                 results, obs>>

NextRiskCategory == \E r \in Runs : ApplyRiskCategory(r)

SpecRiskCategory == InitRiskCategory /\ [][NextRiskCategory]_vars

(***************************************************************************)
(* AnomalyDetectorAgent: the multi-factor list on its own                  *)
(***************************************************************************)
\* Machine_ID values and per-category lists: df[mask]['Machine_ID'].tolist()
\* has one element per selected row, so an ID carried by several rows can
\* occur several times in one list.
MachineIds == {"M1", "M2"}

AnomalyCategories == {"high_temperature", "high_vibration", "maintenance_overdue"}

MachineLists ==
  UNION { [1..n -> MachineIds] : n \in 0..MaxListLen }

\* Counter(all_anomaly_machines)[machine], the lists of all categories
\* concatenated.
MachineCount(anomalies, machine) ==
  LET Occurrences(c) ==
        Cardinality({i \in 1..Len(anomalies[c]) : anomalies[c][i] = machine})
      Sum[cs \in SUBSET AnomalyCategories] ==
        IF cs = {} THEN 0
        ELSE LET c == CHOOSE x \in cs : TRUE
             IN  Occurrences(c) + Sum[cs \ {c}]
  IN  Sum[AnomalyCategories]

\* AnomalyDetectorAgent._find_multi_factor_anomalies (the machines of the
\* returned list, which has no repetition).
_find_multi_factor_anomalies(anomalies) ==
  { machine \in MachineIds : MachineCount(anomalies, machine) >= 3 }

InitMultiFactor ==
  /\ heap = [l \in ListIds |-> <<>>]
  /\ validation_history = 0
  /\ pipeline_status = "idle"
  /\ client = FALSE
  /\ args = [r \in Runs |-> None]
  /\ pc = [r \in Runs |-> IF r = 1 THEN "detect_anomalies" ELSE "idle"]
  /\ results = [r \in Runs |-> NoResults]
  /\ \E anomalies \in [AnomalyCategories -> MachineLists] :
        loc = [r \in Runs |-> [anomalies |-> anomalies,
                               multi_factor_critical |-> None]]
  /\ obs = [r \in Runs |-> NoObs]

\* anomalies['multi_factor_critical'] = self._find_multi_factor_anomalies(...)
ApplyFindMultiFactor(r) ==
  /\ pc[r] = "detect_anomalies"
  /\ loc' = [loc EXCEPT ![r].multi_factor_critical =
        Some(_find_multi_factor_anomalies(loc[r].anomalies))]
  /\ Goto(r, "detected")
  /\ UNCHANGED <<heap, validation_history, pipeline_status, client, args,
                 results, obs>>

NextMultiFactor == \E r \in Runs : ApplyFindMultiFactor(r)

SpecMultiFactor == InitMultiFactor /\ [][NextMultiFactor]_vars

\* One call of run_pipeline with a service that may never answer a call.
\* Operational_Hours readings: missing, negative, zero, and positive ones
\* below, at and above a full year of operation.
HoursReadings == {NaN, -5, 0, 1, 4380, 24 * 365, 20000}

\* Tables of at most MaxListLen machines; Machine_ID is the row number.
HoursTables ==
  UNION { [1..n -> HoursReadings] : n \in 0..MaxListLen }

\* Variant: only negative readings are invalid.
ValidHours_nonnegative(hours) == hours # NaN /\ hours >= 0

\* df['Operational_Hours'] > 0 (false for a missing reading)
ValidHours(hours) == hours # NaN /\ hours > 0

\* PreprocessingAgent.clean_data, step 2: df = df[df['Operational_Hours'] > 0]
CleanHours(table) ==
  LET rows == [i \in 1..Len(table) |->
                 [Machine_ID |-> i, Operational_Hours |-> table[i]]]
  IN  SelectSeq(rows, LAMBDA row : ValidHours(row.Operational_Hours))

\* np.clip(Operational_Hours / (24 * 365), 0, 1), in units of 1 / (24 * 365)
Utilization_Rate(hours) ==
  IF hours < 0 THEN 0 ELSE IF hours > 24 * 365 THEN 24 * 365 ELSE hours

\* KPIAgent.compute_kpis: the Utilization_Rate column
WithUtilizationRate(df) ==
  [i \in 1..Len(df) |->
     [Machine_ID |-> df[i].Machine_ID,
      Utilization_Rate |-> Utilization_Rate(df[i].Operational_Hours)]]

\* Machine_ID.tolist() of the rows a mask selects
MachineIdList(rows) == [i \in 1..Len(rows) |-> rows[i].Machine_ID]

\* df[df['Utilization_Rate'] == 0]['Machine_ID'].tolist()
zero_utilization(df) ==
  MachineIdList(SelectSeq(df, LAMBDA row : row.Utilization_Rate = 0))

\* df[(Utilization_Rate > 0) & (Utilization_Rate < 0.1)]['Machine_ID'].tolist()
very_low_utilization(df) ==
  MachineIdList(SelectSeq(df, LAMBDA row :
     row.Utilization_Rate > 0 /\ 10 * row.Utilization_Rate < 24 * 365))

InitUtilization ==
  /\ heap = [l \in ListIds |-> <<>>]
  /\ validation_history = 0
  /\ pipeline_status = "running"
  /\ client = FALSE
  /\ args = [r \in Runs |-> None]
  /\ pc = [r \in Runs |-> IF r = 1 THEN "preprocessing" ELSE "idle"]
  /\ results = [r \in Runs |-> NoResults]
  /\ \E table \in HoursTables :
        loc = [r \in Runs |->
                 [Operational_Hours |-> table, df |-> None,
                  zero_utilization |-> None, very_low_utilization |-> None,
                  decisions |-> None]]
  /\ obs = [r \in Runs |-> NoObs]

\* Stage 3 on the Operational_Hours column
ApplyCleanHours(r) ==
  /\ pc[r] = "preprocessing"
  /\ loc' = [loc EXCEPT ![r].df = Some(CleanHours(loc[r].Operational_Hours))]
  /\ Goto(r, "kpi_calculation")
  /\ UNCHANGED <<heap, validation_history, pipeline_status, client, args,
                 results, obs>>

\* Stage 5 on the cleaned table
ApplyUtilizationRate(r) ==
  /\ pc[r] = "kpi_calculation"
  /\ loc' = [loc EXCEPT ![r].df = Some(WithUtilizationRate(loc[r].df[1]))]
  /\ Goto(r, "anomaly_detection")
  /\ UNCHANGED <<heap, validation_history, pipeline_status, client, args,
                 results, obs>>

\* Stage 7, the zero/low utilization lists
ApplyZeroUtilization(r) ==
  /\ pc[r] = "anomaly_detection"
  /\ loc' = [loc EXCEPT
        ![r].zero_utilization = Some(zero_utilization(loc[r].df[1])),
        ![r].very_low_utilization = Some(very_low_utilization(loc[r].df[1]))]
  /\ Goto(r, "decision")
  /\ UNCHANGED <<heap, validation_history, pipeline_status, client, args,
                 results, obs>>

\* Stage 12 for a fleet that shows no other anomaly and a valid narrative
ApplyDecideOnUtilization(r) ==
  /\ pc[r] = "decision"
  /\ Len(loc[r].df[1]) > 0
  /\ loc' = [loc EXCEPT ![r].decisions =
        Some(decide([total_machines |-> Len(loc[r].df[1]),
                     critical_machine_count |-> 0, avg_health_score |-> 80],
                    [high_temperature |-> 0, high_vibration |-> 0,
                     zero_utilization |-> Len(loc[r].zero_utilization[1]),
                     maintenance_overdue |-> 0],
                    [text |-> [long |-> TRUE, terms |-> {}],
                     status |-> "success"],
                    [valid |-> TRUE, issues |-> <<>>, retry_needed |-> FALSE],
                    DecideOptionalArguments(results[r])))]
  /\ Goto(r, "report_generation")
  /\ UNCHANGED <<heap, validation_history, pipeline_status, client, args,
                 results, obs>>

NextUtilization ==
  \E r \in Runs :
    \/ ApplyCleanHours(r)
    \/ ApplyUtilizationRate(r)
    \/ ApplyZeroUtilization(r)
    \/ ApplyDecideOnUtilization(r)

\* Stages 3, 5, 7 and 12 of run_pipeline on the Operational_Hours column.
SpecUtilization == InitUtilization /\ [][NextUtilization]_vars

\* The calls of the optional-stage scenario: one accepted table, analysed
\* once with the optional stages off and once with some of them on.
OptionalStageInputs ==
  { a \in Inputs :
      /\ a.data_source.found /\ a.data_source.rows = MaxRows
      /\ ~a.data_source.missing_cols /\ ~a.data_source.high_null
      /\ a.data_source.removed = 0 /\ ~a.data_source.error_col
      /\ a.data_source.low_util = 0 /\ a.data_source.health = 55 }

\* Two calls of run_pipeline on the same table that differ only in
\* enable_reasoning, enable_debate and enable_planning.
InitOptionalStages ==
  /\ InitCommon
  /\ client = FALSE
  /\ \E a \in OptionalStageInputs, b \in OptionalStageInputs :
        /\ ~a.enable_reasoning /\ ~a.enable_debate /\ ~a.enable_planning
        /\ b.enable_reasoning \/ b.enable_debate \/ b.enable_planning
        /\ a.data_source = b.data_source
        /\ args = [r \in Runs |-> IF r = 1 THEN Some(a) ELSE Some(b)]

SpecOptionalStages == InitOptionalStages /\ [][Next]_vars

NextUnresponsive == Next \/ \E r \in Runs : LlmCallBlocks(r)

FairSpecUnresponsive ==
  Init /\ [][NextUnresponsive]_vars /\ WF_vars(NextUnresponsive)

\* The called runs proceed: the host lets every started call finish.
FairSpec == Init /\ [][Next]_vars /\ WF_vars(Next)

(***************************************************************************)
(* Properties of the quality gates                                         *)
(***************************************************************************)
\* C1: the raw-data gate is hard.  Once validate_raw_data has returned an
\* invalid verdict, the run has returned: its status is "failed", its only
\* errors entry carries the validator's list of issues, stages_completed
\* holds data_collection alone, there is no report and no later stage ran.
C1_RawGateIsHard ==
  \A r \in Runs :
    (\E i \in 1..Len(obs[r].validations) :
        obs[r].validations[i] = [call |-> "validate_raw_data", valid |-> FALSE])
    => /\ pc[r] = "done"
       /\ results[r].status = "failed"
       /\ Len(results[r].errors) = 1
       /\ results[r].errors[1].issues =
             validate_raw_data(load_data(args[r][1].data_source)).issues
       /\ results[r].errors[1].issues # <<>>
       /\ results[r].stages_completed = <<"data_collection">>
       /\ results[r].report = None
       /\ Len(obs[r].validations) = 1
       /\ obs[r].interpret_calls = 0

\* A run rejected for two reasons at once has returned.
C1_Witness ==
  \E r \in Runs :
    /\ pc[r] = "done"
    /\ results[r].status = "failed"
    /\ results[r].errors[1].issues = <<"insufficient_data", "missing_columns">>

\* C2: the narrative loop.  interpret is called only while fewer than
\* max_retries calls were made and the previous verdict (if any) was invalid
\* with retry_needed; after a verdict the loop goes on exactly when that
\* verdict is invalid with retry_needed and the budget is not exhausted,
\* i.e. it exits exactly when the verdict is valid, or retry_needed is
\* false, or max_retries attempts were made.
C2_NarrativeLoopExit ==
  [][\A r \in Runs :
       LET called == obs'[r].interpret_calls # obs[r].interpret_calls
           judged == called /\ Len(obs'[r].validations) # Len(obs[r].validations)
           qc == loc'[r].qc_result[1]
       IN  /\ called =>
                /\ obs[r].interpret_calls < max_retries
                /\ \/ loc[r].qc_result = None
                   \/ /\ ~loc[r].qc_result[1].valid
                      /\ loc[r].qc_result[1].retry_needed
           /\ judged =>
                (pc'[r] = "llm_analysis" <=>
                   /\ ~qc.valid
                   /\ qc.retry_needed
                   /\ obs'[r].interpret_calls < max_retries)
           /\ judged /\ pc'[r] # "llm_analysis" => pc'[r] = "decision"
    ]_vars

\* A run left the loop on a valid verdict reached at the second attempt.
C2_Witness ==
  \E r \in Runs :
    /\ pc[r] = "decision"
    /\ obs[r].interpret_calls = 2
    /\ loc[r].qc_result[1].valid

\* C3: every validation call a run makes appends exactly one entry to the
\* history, in call order, whose valid field is the verdict returned; the
\* entries of the two retry loops carry the 1-based number of the attempt.
C3_OneEntryPerValidation ==
  \A r \in Runs :
    LET entries == SelectSeq(heap[r], LAMBDA e : e.agent # "DataCollector")
        calls == obs[r].validations
        AgentOf(call) ==
          CASE call = "validate_llm_output" -> "QualityControl"
            [] call = "validate_report" -> "FinalValidator"
            [] OTHER -> "Validator"
        Rank(i) == Cardinality({j \in 1..i : calls[j].call = calls[i].call})
    IN  /\ Len(entries) = Len(calls)
        /\ \A i \in 1..Len(calls) :
             /\ entries[i].agent = AgentOf(calls[i].call)
             /\ entries[i].valid = calls[i].valid
             /\ calls[i].call \in {"validate_llm_output", "validate_report"}
                  => entries[i].attempt = Rank(i)

\* A history with a rejected third narrative attempt and a final validation.
C3_Witness ==
  \E r \in Runs :
    \E i, j \in 1..Len(heap[r]) :
      /\ heap[r][i].agent = "QualityControl"
      /\ heap[r][i].attempt = 3
      /\ ~heap[r][i].valid
      /\ heap[r][j].agent = "FinalValidator"

\* C4: when a quality gate (the narrative check or the final report check)
\* is still invalid after max_retries attempts, the run still returns with
\* status "success" and a report, and the validation_history it returns
\* contains the failed entry of the last attempt.
C4_ExhaustedGateStillSucceeds ==
  \A r \in Runs :
    LET narrative == /\ loc[r].qc_result # None
                     /\ ~loc[r].qc_result[1].valid
                     /\ loc[r].retry_count = max_retries
        final == /\ loc[r].final_validation # None
                 /\ ~loc[r].final_validation[1].valid
                 /\ loc[r].final_retry = max_retries
        agent == IF narrative THEN "QualityControl" ELSE "FinalValidator"
    IN  pc[r] = "done" /\ (narrative \/ final) =>
          /\ results[r].status = "success"
          /\ results[r].report # None
          /\ results[r].validation_history # None
          /\ LET h == heap[results[r].validation_history[1]]
             IN  \E i \in 1..Len(h) :
                   /\ h[i].agent = agent
                   /\ ~h[i].valid
                   /\ h[i].attempt = max_retries

\* C5: the processed-data gate is soft.  A run whose cleaned table was
\* judged invalid has that failed entry in the history, has executed KPI
\* computation and every later mandatory stage, and is never "failed".
C5_ProcessedGateIsSoft ==
  \A r \in Runs :
    (/\ pc[r] = "done"
     /\ \E i \in 1..Len(obs[r].validations) :
          obs[r].validations[i] =
            [call |-> "validate_processed_data", valid |-> FALSE])
    => /\ \E i \in 1..Len(heap[r]) :
            /\ heap[r][i].agent = "Validator"
            /\ heap[r][i].message = "Post-processing validation"
            /\ ~heap[r][i].valid
       /\ {"kpi_calculation", "analysis", "anomaly_detection", "llm_analysis",
           "decision", "report_generation", "final_validation"}
            \subseteq {results[r].stages_completed[i] :
                          i \in 1..Len(results[r].stages_completed)}
       /\ results[r].status # "failed"

\* C6: an exception raised inside a stage is caught; the run returns with
\* status "error" and an errors entry that carries the name of the stage
\* in which the exception originated, together with its message.
C6_ErrorNamesOriginatingStage ==
  \A r \in Runs :
    obs[r].raised_in # None =>
      /\ pc[r] = "done"
      /\ results[r].status = "error"
      /\ Len(results[r].errors) >= 1
      /\ results[r].errors[Len(results[r].errors)].message # ""
      /\ results[r].errors[Len(results[r].errors)].stage = obs[r].raised_in[1]

\* C7: run_pipeline terminates, whatever the external service does: every
\* call returns, interpret is called at most max_retries times in a run and
\* validate_report at most max_retries times.
C7_BoundedRetriesAndTermination ==
  /\ [](\A r \in Runs : /\ obs[r].interpret_calls <= max_retries
                         /\ obs[r].validate_report_calls <= max_retries)
  /\ \A r \in Runs : (args[r] # None) ~> (pc[r] = "done")

\* A run returned after the service gave a rejected text max_retries times.
C7_Witness ==
  \E r \in Runs :
    /\ pc[r] = "done"
    /\ obs[r].interpret_calls = max_retries
    /\ obs[r].service_answers = max_retries
    /\ ~loc[r].qc_result[1].valid

\* C8: two runs on one orchestrator share no mutable state.  The history a
\* run returns is a list of its own, holding the entries that run recorded
\* and no others.
C8_RunsShareNoState ==
  \A r \in Runs :
    pc[r] = "done" /\ results[r].status = "success" =>
      LET h == heap[results[r].validation_history[1]]
      IN  /\ \A i \in 1..Len(h) : h[i].by = r
          /\ Len(h) = Len(obs[r].validations) + 1
          /\ \A q \in Runs \ {r} :
               results[q].validation_history # results[r].validation_history

\* C9: when the text-generation service fails on every call of a run that
\* reaches the narrative stage, every narrative attempt has status
\* "fallback", the loop performs exactly one iteration (one QualityControl
\* entry), and the report carries a non-empty narrative text.
C9_FailingServiceOneFallback ==
  \A r \in Runs :
    (pc[r] = "done" /\ obs[r].interpret_calls > 0 /\ obs[r].service_answers = 0)
    => /\ obs[r].statuses = {"fallback"}
       /\ obs[r].interpret_calls = 1
       /\ Cardinality({i \in 1..Len(heap[r]) :
                         heap[r][i].agent = "QualityControl"}) = 1
       /\ results[r].report # None
       /\ results[r].report[1].ai_text # [long |-> FALSE, terms |-> {}]

\* C10: interpret never raises.  Every call of interpret made by a run
\* returned a result, which the run then handed to validate_llm_output; no
\* run ends in the except clause because of the narrative stage.
C10_InterpretNeverRaises ==
  \A r \in Runs :
    /\ obs[r].raised_in # Some("llm_analysis")
    /\ obs[r].interpret_calls =
         Cardinality({i \in 1..Len(obs[r].validations) :
                        obs[r].validations[i].call = "validate_llm_output"})

(***************************************************************************)
(* Properties of the report                                                *)
(***************************************************************************)
\* C11: when a quality gate (narrative check or final report check) spent
\* its retry budget without a valid verdict, the traceability section of the
\* report the run returns contains an explicit marker, a line that is not
\* an ordinary entry line, saying that validation is incomplete for that
\* gate.
C11_ExhaustedGateIsMarked ==
  \A r \in Runs :
    LET narrative == /\ loc[r].qc_result # None
                     /\ ~loc[r].qc_result[1].valid
                     /\ loc[r].retry_count = max_retries
        final == /\ loc[r].final_validation # None
                 /\ ~loc[r].final_validation[1].valid
                 /\ loc[r].final_retry = max_retries
        gate == IF narrative THEN "QualityControl" ELSE "FinalValidator"
    IN  (pc[r] = "done" /\ results[r].report # None /\ (narrative \/ final)) =>
          LET section == results[r].report[1].traceability
          IN  \E i \in 1..Len(section) :
                /\ section[i].kind = "validation_incomplete"
                /\ section[i].agent = gate

C18_ValidateReportVerdict ==
  \A r \in Runs :
    loc[r].final_validation # None =>
      LET report == loc[r].report[1]
          decisions == loc[r].decisions[1]
          verdict == loc[r].final_validation[1]
          decisions_header == report.sections \cap {"DECISIONS", "DÉCISIONS"} # {}
          sections_ok ==
            /\ "KPI" \in report.sections
            /\ "ANOMALIES" \in report.sections
            /\ decisions_header
            /\ report.sections \cap {"TRACEABILITY", "TRAÇABILITÉ"} # {}
          hard == \/ ~report.long
                  \/ ~sections_ok
                  \/ decisions.action_needed /\ Len(decisions.decisions) = 0
      IN  /\ verdict.valid = ~hard
          /\ ~decisions_header =>
                \E i \in 1..Len(verdict.issues) :
                  /\ verdict.issues[i].kind = "missing_sections"
                  /\ verdict.issues[i].sections
                       \cap {"DECISIONS", "DÉCISIONS"} # {}

(***************************************************************************)
(* Properties of decide                                                    *)
(***************************************************************************)
\* C13: the overall priority only moves upward along NORMAL < HIGH < URGENT
\* while the rules are evaluated, and every rule that appends a P1 decision
\* escalates it to URGENT: a returned record that contains a P1 decision
\* has priority URGENT.
C13_PriorityOnlyEscalates ==
  \A r \in Runs :
    loc[r].decisions # None =>
      LET d == loc[r].decisions[1]
          Level(p) == CASE p = "NORMAL" -> 0 [] p = "HIGH" -> 1
                        [] p = "URGENT" -> 2
      IN  /\ \A i \in 1..(Len(d.steps) - 1) :
               Level(d.steps[i]) <= Level(d.steps[i + 1])
          /\ (\E i \in 1..Len(d.decisions) : d.decisions[i].priority = "P1")
               => d.priority = "URGENT"

\* C14: for every input of decide whose summary has avg_health_score < 50
\* the returned priority is URGENT and the list contains exactly one P1
\* decision of category health, whatever the other rules did.
C14_LowHealthIsUrgent ==
  \A r \in Runs :
    (/\ loc[r].decisions # None
     /\ loc[r].summary[1].avg_health_score # NaN
     /\ loc[r].summary[1].avg_health_score < 50)
    => LET d == loc[r].decisions[1]
       IN  /\ d.priority = "URGENT"
           /\ Cardinality({i \in 1..Len(d.decisions) :
                 /\ d.decisions[i].priority = "P1"
                 /\ d.decisions[i].category = "health"}) = 1

\* decide returned for a low health score while three other rules fired.
C14_Witness ==
  \E r \in Runs :
    /\ loc[r].decisions # None
    /\ loc[r].summary[1].avg_health_score = 40
    /\ loc[r].anomalies[1].high_temperature = 6
    /\ Len(loc[r].decisions[1].decisions) >= 4

\* C15: the returned decision list is sorted by priority P1 < P2 < P3, and
\* decisions of equal priority keep the order in which the rules appended
\* them (the order of the rules).
C15_DecisionsSortedStable ==
  \A r \in Runs :
    loc[r].decisions # None =>
      LET ds == loc[r].decisions[1].decisions
          Rank(d) == CASE d.priority = "P1" -> 0 [] d.priority = "P2" -> 1
                       [] d.priority = "P3" -> 2
      IN  \A i, j \in 1..Len(ds) :
            i < j => \/ Rank(ds[i]) < Rank(ds[j])
                     \/ /\ Rank(ds[i]) = Rank(ds[j])
                        /\ ds[i].rule < ds[j].rule

\* A returned list in which the sort moved a P1 decision of the last rule
\* in front of P2 and P3 decisions of earlier rules.
C15_Witness ==
  \E r \in Runs :
    /\ loc[r].decisions # None
    /\ LET ds == loc[r].decisions[1].decisions
       IN  /\ Len(ds) >= 5
           /\ ds[1].rule = 8
           /\ ds[Len(ds)].priority = "P3"
           /\ \E i \in 1..Len(ds) : ds[i].priority = "P2" /\ ds[i].rule = 2

(***************************************************************************)
(* Properties of the inputs and of the narrative check                     *)
(***************************************************************************)
\* C16: a missing input file is a fatal input error.  The run ends at the
\* load stage, no later stage is executed, there is no report, and the
\* errors of the result carry the issue the loader reported (file not
\* found), as the entry of the raw-data gate carries its issues.
C16_MissingFileIsReported ==
  \A r \in Runs :
    (/\ args[r] # None
     /\ ~args[r][1].data_source.found
     /\ pc[r] \notin {"idle", "data_collection"})
    => /\ pc[r] = "done"
       /\ results[r].stages_completed = <<"data_collection">>
       /\ results[r].report = None
       /\ obs[r].validations = <<>>
       /\ \E i \in 1..Len(results[r].errors) :
            LET e == results[r].errors[i]
                issue == load_data(args[r][1].data_source).error
            IN  \/ e.message = issue
                \/ \E k \in 1..Len(e.issues) : e.issues[k] = issue

\* C17: the external call made by interpret is bounded by a timeout.  A
\* run whose call to the service is never answered treats the call as
\* failed, gets the fallback narrative, and eventually returns.
C17_UnansweredCallTimesOut ==
  \A r \in Runs :
    (pc[r] = "llm_call") ~> (pc[r] = "done" /\ "fallback" \in obs[r].statuses)

\* C19: validate_llm_output returns valid = TRUE iff it found no hard
\* issue (text below the minimum length, or a consistency failure against
\* the summary: many critical machines without an urgency term, low
\* average health without a health term); retry_needed = TRUE iff there is
\* a hard issue and the status is not "fallback".  A fallback narrative
\* never asks for a retry and warnings affect neither flag.
C19_QualityVerdictFlags ==
  \A r \in Runs :
    pc[r] = "validated" =>
      LET text == loc[r].llm_result[1].text
          status == loc[r].llm_result[1].status
          summary == loc[r].summary[1]
          verdict == loc[r].qc_result[1]
          understates ==
            /\ 5 * summary.critical_machine_count > summary.total_machines
            /\ text.terms \cap {"urgent", "critique", "immediat", "priorit"} = {}
          ignores_health ==
            /\ summary.avg_health_score # NaN
            /\ summary.avg_health_score < 60
            /\ text.terms \cap {"sante", "health", "etat", "degrade"} = {}
          hard == ~text.long \/ understates \/ ignores_health
      IN  /\ verdict.valid = ~hard
          /\ verdict.retry_needed = (hard /\ status # "fallback")
          /\ status = "fallback" => ~verdict.retry_needed

\* A rejected fallback narrative, and a valid narrative with warnings.
C19_Witness ==
  \E r \in Runs :
    /\ pc[r] = "validated"
    /\ loc[r].llm_result[1].status = "fallback"
    /\ ~loc[r].qc_result[1].valid
    /\ Len(loc[r].qc_result[1].issues) = 3
    /\ Len(loc[r].qc_result[1].warnings) = 4

\* C20: within one run validation_history is append-only: in every step the
\* history before the step is a prefix of the history after it (no entry is
\* removed, reordered or modified by any stage).
C20_HistoryAppendOnly ==
  [][LET before == heap[validation_history]
         after == heap'[validation_history']
     IN  /\ Len(before) <= Len(after)
         /\ SubSeq(after, 1, Len(before)) = before
    ]_vars

\* A returned history that grew through both retry loops.
C20_Witness ==
  \E r \in Runs :
    /\ pc[r] = "done"
    /\ results[r].status = "success"
    /\ Len(heap[validation_history]) = 7
    /\ obs[r].interpret_calls = 3

\* C23: the validation_history returned by a successful run is, in order:
\* one DataCollector entry, the raw-validation entry (valid), the
\* processed-validation entry, k QualityControl entries with attempts 1..k
\* and m FinalValidator entries with attempts 1..m, 1 <= k, m <= max_retries;
\* in each of the two groups every entry but the last is invalid.
C23_HistoryShape ==
  \A r \in Runs :
    (pc[r] = "done" /\ results[r].status = "success") =>
      LET history == heap[results[r].validation_history[1]]
          Group(agent, first, n) ==
            \A i \in 1..n :
              /\ history[first + i].agent = agent
              /\ history[first + i].attempt = i
              /\ i < n => ~history[first + i].valid
      IN  \E k, m \in 1..max_retries :
            /\ Len(history) = 3 + k + m
            /\ history[1].agent = "DataCollector"
            /\ history[2].agent = "Validator"
            /\ history[2].message = "Raw data validation"
            /\ history[2].valid
            /\ history[3].agent = "Validator"
            /\ history[3].message = "Post-processing validation"
            /\ Group("QualityControl", 3, k)
            /\ Group("FinalValidator", 3 + k, m)

\* A returned history with two narrative attempts, the second accepted, and
\* a report accepted at the first final validation.
C23_Witness ==
  \E r \in Runs :
    /\ pc[r] = "done"
    /\ results[r].status = "success"
    /\ LET history == heap[results[r].validation_history[1]]
       IN  /\ Len(history) = 6
           /\ history[4].agent = "QualityControl" /\ ~history[4].valid
           /\ history[5].agent = "QualityControl" /\ history[5].valid
           /\ history[6].agent = "FinalValidator" /\ history[6].valid

\* C24: after run_pipeline has returned, pipeline_status is never "running":
\* it is "completed" when the result status is "success" and a terminal
\* value other than "running" when the result status is "failed" or "error".
C24_StatusTerminalAfterReturn ==
  \A r \in Runs :
    pc[r] = "done" =>
      /\ pipeline_status # "running"
      /\ results[r].status = "success" => pipeline_status = "completed"
      /\ results[r].status \in {"failed", "error"} =>
            pipeline_status \in {"error", "failed"}

\* C25: the entries rendered in the traceability section of the report a
\* successful run returns are exactly the validation_history entries
\* recorded before report assembly, in order: the prefix of the returned
\* history that ends before its first FinalValidator entry.
C25_TraceabilityIsPrefix ==
  \A r \in Runs :
    (pc[r] = "done" /\ results[r].status = "success") =>
      LET history == heap[results[r].validation_history[1]]
          rendered == results[r].report[1].traceability
          n == Len(rendered)
      IN  /\ n <= Len(history)
          /\ \A i \in 1..n :
               /\ rendered[i].kind = "entry"
               /\ rendered[i].agent = history[i].agent
               /\ rendered[i].valid = history[i].valid
               /\ rendered[i].message = history[i].message
               /\ rendered[i].attempt = history[i].attempt
               /\ history[i].agent # "FinalValidator"
          /\ \A i \in (n + 1)..Len(history) :
               history[i].agent = "FinalValidator"

\* A returned report that lists three narrative attempts while the returned
\* history also holds the final validation.
C25_Witness ==
  \E r \in Runs :
    /\ pc[r] = "done"
    /\ results[r].status = "success"
    /\ Len(results[r].report[1].traceability) = 6
    /\ ~results[r].report[1].traceability[4].valid
    /\ Len(heap[results[r].validation_history[1]]) = 7

\* C26: every record decide returns has action_needed = (priority is HIGH
\* or URGENT), and a record with action_needed has a non-empty decision
\* list, so validate_report never reports "action needed but no decisions"
\* for a record produced by decide, whatever the report.
C26_ActionNeededHasDecisions ==
  \A r \in Runs :
    loc[r].decisions # None =>
      LET d == loc[r].decisions[1]
      IN  /\ d.action_needed = (d.priority \in {"HIGH", "URGENT"})
          /\ d.action_needed => Len(d.decisions) > 0
          /\ \A report \in Reports :
               LET issues == validate_report(report, d).issues
               IN  \A i \in 1..Len(issues) :
                     issues[i].kind # "action_without_decisions"

\* decide returned HIGH on the narrative's risk keyword alone: the audit
\* decision is the only decision of the record.
C26_Witness ==
  \E r \in Runs :
    /\ loc[r].decisions # None
    /\ loc[r].decisions[1].priority = "HIGH"
    /\ loc[r].decisions[1].action_needed
    /\ Len(loc[r].decisions[1].decisions) = 1
    /\ loc[r].decisions[1].decisions[1].category = "audit"

\* C27: every report generate_report assembles from a record of decide
\* passes validate_report, so on every successful run the final-validation
\* loop makes exactly one iteration and records a single FinalValidator
\* entry, which is valid.
C27_ReportPassesFirstTime ==
  \A r \in Runs :
    /\ loc[r].report # None =>
          validate_report(loc[r].report[1], loc[r].decisions[1]).valid
    /\ (pc[r] = "done" /\ results[r].status = "success") =>
          LET history == heap[results[r].validation_history[1]]
              final == SelectSeq(history, LAMBDA e : e.agent = "FinalValidator")
          IN  /\ obs[r].validate_report_calls = 1
              /\ loc[r].final_retry = 0
              /\ Len(final) = 1
              /\ final[1].valid
              /\ final[1].attempt = 1

\* A successful run whose record asks for action and whose narrative gate
\* was exhausted: its report was still accepted at the first validation.
C27_Witness ==
  \E r \in Runs :
    /\ pc[r] = "done"
    /\ results[r].status = "success"
    /\ loc[r].decisions[1].action_needed
    /\ obs[r].interpret_calls = 3
    /\ ~loc[r].qc_result[1].valid
    /\ loc[r].final_validation[1].valid

\* C28: the fallback narrative always passes the narrative check: for every
\* summary and anomaly map for which _generate_fallback_insights returns
\* text, validate_llm_output accepts it; so a run whose service never
\* answered and whose narrative stage produced a narrative has recorded
\* exactly one QualityControl entry, a valid one.
C28_FallbackAlwaysValid ==
  /\ \A summary \in SummariesForDecide :
       ~fallback_raises(summary) =>
         \A anomalies \in AnomalyMapsForDecide(summary.total_machines) :
           validate_llm_output(
             [text |-> _generate_fallback_insights(summary, anomalies),
              status |-> "fallback"], summary).valid
  /\ \A r \in Runs :
       (loc[r].qc_result # None /\ obs[r].service_answers = 0) =>
         LET entries == SelectSeq(heap[validation_history],
                                  LAMBDA e : e.agent = "QualityControl")
         IN  /\ loc[r].llm_result[1].status = "fallback"
             /\ loc[r].qc_result[1].valid
             /\ obs[r].interpret_calls = 1
             /\ Len(entries) = 1
             /\ entries[1].valid
             /\ entries[1].attempt = 1

\* A finished run on a fleet with a low health score and many critical
\* machines, whose service failed although a client was configured.
C28_Witness ==
  \E r \in Runs :
    /\ pc[r] = "done"
    /\ results[r].status = "success"
    /\ client
    /\ obs[r].service_answers = 0
    /\ loc[r].llm_result[1].status = "fallback"
    /\ loc[r].summary[1].avg_health_score = 40
    /\ 5 * loc[r].summary[1].critical_machine_count
          > loc[r].summary[1].total_machines
    /\ loc[r].qc_result[1].valid

\* C29: the optional reasoning, debate and planning stages are pass-through
\* for decisions: two runs on the same input data with the same narrative
\* and the same narrative verdict, which differ only in enable_reasoning,
\* enable_debate or enable_planning and both reach the decision stage,
\* produce the same overall priority and the same decision list.
C29_OptionalStagesPassThrough ==
  \A r1, r2 \in Runs :
    (/\ loc[r1].decisions # None /\ loc[r2].decisions # None
     /\ args[r1][1].data_source = args[r2][1].data_source
     /\ loc[r1].summary = loc[r2].summary
     /\ loc[r1].anomalies = loc[r2].anomalies
     /\ loc[r1].llm_result = loc[r2].llm_result
     /\ loc[r1].qc_result = loc[r2].qc_result)
    => /\ loc[r1].decisions[1].priority = loc[r2].decisions[1].priority
       /\ loc[r1].decisions[1].decisions = loc[r2].decisions[1].decisions

\* Both runs decided on the same anomalies, one of them after all three
\* optional stages ran.
C29_Witness ==
  \E r1, r2 \in Runs :
    /\ loc[r1].decisions # None /\ loc[r2].decisions # None
    /\ ~results[r1].reasoning /\ ~results[r1].debate /\ ~results[r1].action_plan
    /\ results[r2].reasoning /\ results[r2].debate /\ results[r2].action_plan
    /\ loc[r1].anomalies = loc[r2].anomalies
    /\ loc[r1].anomalies[1].high_temperature = 1
    /\ Len(loc[r2].decisions[1].decisions) >= 2

(***************************************************************************)
(* Properties of the agents                                                *)
(***************************************************************************)
\* C21: compute_kpis gives every machine whose health score lies in
\* [0, 100] a risk category, with bins inclusive on the lower bound:
\* [0, 30) Critical, [30, 60) High, [60, 80) Medium, [80, 100] Low.
C21_RiskBinsLowerInclusive ==
  \A r \in Runs :
    pc[r] = "computed" =>
      LET score == loc[r].Health_Score
          expected == IF score < 30 THEN "Critical"
                      ELSE IF score < 60 THEN "High"
                      ELSE IF score < 80 THEN "Medium"
                      ELSE "Low"
      IN  loc[r].Risk_Category[1] = Some(expected)

\* C22: multi_factor_critical, computed from the finished per-category
\* lists, contains exactly the machines that appear in at least 3 distinct
\* anomaly categories; a machine is counted once per category even when
\* its Machine_ID occurs several times in the batch.
C22_MultiFactorDistinctCategories ==
  \A r \in Runs :
    pc[r] = "detected" =>
      LET anomalies == loc[r].anomalies
          CategoriesOf(machine) ==
            { c \in AnomalyCategories :
                \E i \in 1..Len(anomalies[c]) : anomalies[c][i] = machine }
      IN  loc[r].multi_factor_critical[1] =
            { machine \in MachineIds : Cardinality(CategoriesOf(machine)) >= 3 }

====
